---- MODULE Spec2Model ----
(***************************************************************************)
(* Model of the lexicon trie (lexicon/trie.py) and of the combination      *)
(* search generate_initial_combos (lexicon/mnemo_mcp.py).                  *)
(*                                                                         *)
(* A syllable is a natural number (its code point order is the order of    *)
(* the naturals), a word is a sequence of syllables.  Scores are kept in   *)
(* tenths (2.0 is 20, 0.3 is 3), so that every score of the program is an  *)
(* integer here.                                                           *)
(***************************************************************************)
EXTENDS Integers, Sequences, FiniteSets, TLC

----------------------------------------------------------------------------
(* Bounds of the model *)

NSyl == 2
MaxWordLen == 2
MaxWords == 2
MaxLen == 3
MaxBeam == 1
MaxCand == 1

----------------------------------------------------------------------------
(* Program constants *)

SOURCE_URIMAL == "URIMAL"
SOURCE_STD == "STD"
SOURCE_BASIC == "BASIC"

SOURCE_WEIGHTS == (SOURCE_URIMAL :> 10) @@ (SOURCE_STD :> 20) @@ (SOURCE_BASIC :> 30)

SEGMENT_PENALTY == 2
LENGTH_BONUS == 3
HINT_PER_SYLLABLE == 1
HINT_SCORE_SHARE == 2
DEFAULT_BEAM_WIDTH == 64
DEFAULT_MAX_CANDIDATES == 20

----------------------------------------------------------------------------
(* Sequences, strings and sorting *)

Range(s) == {s[i] : i \in DOMAIN s}

Max(S) == CHOOSE x \in S : \A y \in S : y <= x

RECURSIVE SumSeq(_)
SumSeq(s) == IF s = <<>> THEN 0 ELSE Head(s) + SumSeq(Tail(s))

RECURSIVE Join(_)
\* "".join(words), and the concatenation of a list of lists
Join(ss) == IF ss = <<>> THEN <<>> ELSE Head(ss) \o Join(Tail(ss))

\* u < v for two strings: the first differing syllable decides, a proper
\* prefix is smaller
StrLess(u, v) ==
    \E i \in 1..(Len(v)) :
        /\ \A j \in 1..(i - 1) : j <= Len(u) /\ u[j] = v[j]
        /\ i - 1 <= Len(u)
        /\ (i > Len(u) \/ u[i] < v[i])

\* list.sort / sorted: a stable sort under the strict order Less of the keys
SortBy(s, Less(_, _)) ==
    LET n == Len(s)
        pos(i) == 1 + Cardinality({j \in 1..n :
                        \/ Less(s[j], s[i])
                        \/ (j < i /\ ~Less(s[i], s[j]))})
    IN  [k \in 1..n |-> s[CHOOSE i \in 1..n : pos(i) = k]]

\* the elements of a finite set in the order Less (a total order on S)
SetToSeq(S, Less(_, _)) ==
    LET pos(x) == 1 + Cardinality({y \in S : Less(y, x)})
    IN  [k \in 1..Cardinality(S) |-> CHOOSE x \in S : pos(x) = k]

----------------------------------------------------------------------------
(* Trie: nodes are named by the path that leads to them; children is the   *)
(* key list of the node's dict, in insertion order.                        *)

NewNode == [children |-> <<>>, terminal |-> FALSE, sources |-> {}, base_score |-> 0]

NewTrie == [nodes |-> (<<>> :> NewNode), size |-> 0]

source_weight(source) ==
    IF source \in DOMAIN SOURCE_WEIGHTS THEN SOURCE_WEIGHTS[source] ELSE 0

RECURSIVE descend(_, _, _)
\* node = node.children.setdefault(ch, _Node()) for ch = word[i], word[i+1], ...
descend(nodes, word, i) ==
    IF i > Len(word) THEN nodes
    ELSE LET parent == SubSeq(word, 1, i - 1)
             child == SubSeq(word, 1, i)
             nodes1 == IF word[i] \in Range(nodes[parent].children)
                       THEN nodes
                       ELSE [nodes EXCEPT ![parent].children = Append(@, word[i])]
                                @@ (child :> NewNode)
         IN  descend(nodes1, word, i + 1)

\* insert that replaces the sources of the node by the incoming ones
insert_overwrite(t, word, sources) ==
    IF word = <<>> THEN t
    ELSE LET nodes1 == descend(t.nodes, word, 1)
             node == nodes1[word]
             node1 == [node EXCEPT !.terminal = TRUE]
             node2 == IF sources # {}
                      THEN [node1 EXCEPT
                              !.sources = sources,
                              !.base_score = Max({source_weight(s) : s \in sources})]
                      ELSE node1
         IN  [nodes |-> [nodes1 EXCEPT ![word] = node2],
              size |-> IF node.terminal THEN t.size ELSE t.size + 1]

\* insert whose score is the best weight of the incoming sources alone
insert_last_weight(t, word, sources) ==
    IF word = <<>> THEN t
    ELSE LET nodes1 == descend(t.nodes, word, 1)
             node == nodes1[word]
             node1 == [node EXCEPT !.terminal = TRUE]
             node2 == IF sources # {}
                      THEN [node1 EXCEPT
                              !.sources = @ \cup sources,
                              !.base_score = Max({source_weight(s) : s \in sources})]
                      ELSE node1
         IN  [nodes |-> [nodes1 EXCEPT ![word] = node2],
              size |-> IF node.terminal THEN t.size ELSE t.size + 1]

\* insert that counts every call for a non-empty word
insert_count_calls(t, word, sources) ==
    IF word = <<>> THEN t
    ELSE LET nodes1 == descend(t.nodes, word, 1)
             node == nodes1[word]
             node1 == [node EXCEPT !.terminal = TRUE]
             node2 == IF sources # {}
                      THEN [node1 EXCEPT
                              !.sources = @ \cup sources,
                              !.base_score = Max({@} \cup {source_weight(s) : s \in sources})]
                      ELSE node1
         IN  [nodes |-> [nodes1 EXCEPT ![word] = node2],
              size |-> t.size + 1]

\* insert that marks the node only when it is given sources: a call without
\* sources makes the nodes of the path and no word
insert_marks_with_sources(t, word, sources) ==
    IF word = <<>> THEN t
    ELSE LET nodes1 == descend(t.nodes, word, 1)
             node == nodes1[word]
             node2 == IF sources # {}
                      THEN [node EXCEPT
                              !.terminal = TRUE,
                              !.sources = @ \cup sources,
                              !.base_score = Max({@} \cup {source_weight(s) : s \in sources})]
                      ELSE node
         IN  [nodes |-> [nodes1 EXCEPT ![word] = node2],
              size |-> IF node.terminal \/ sources = {} THEN t.size ELSE t.size + 1]

\* Trie.insert
insert(t, word, sources) ==
    IF word = <<>> THEN t
    ELSE LET nodes1 == descend(t.nodes, word, 1)
             node == nodes1[word]
             node1 == [node EXCEPT !.terminal = TRUE]
             node2 == IF sources # {}
                      THEN [node1 EXCEPT
                              !.sources = @ \cup sources,
                              !.base_score = Max({@} \cup {source_weight(s) : s \in sources})]
                      ELSE node1
         IN  [nodes |-> [nodes1 EXCEPT ![word] = node2],
              size |-> IF node.terminal THEN t.size ELSE t.size + 1]

RECURSIVE walk(_, _, _)
\* node = node.children.get(ch) for every ch of word; FALSE when a child is missing
walk(t, word, i) ==
    IF i > Len(word) THEN TRUE
    ELSE IF word[i] \in Range(t.nodes[SubSeq(word, 1, i - 1)].children)
         THEN walk(t, word, i + 1)
         ELSE FALSE

contains(t, word) == walk(t, word, 1) /\ t.nodes[word].terminal

\* has_word_with_prefix that asks for a word ending at the prefix
has_word_with_prefix_terminal(t, prefix) ==
    walk(t, prefix, 1) /\ t.nodes[prefix].terminal

has_word_with_prefix(t, prefix) == walk(t, prefix, 1)

\* Optional[dict]: <<>> is None, <<info>> is the dict
get_word_info(t, word) ==
    IF ~walk(t, word, 1) THEN <<>>
    ELSE IF ~t.nodes[word].terminal THEN <<>>
    ELSE << [word |-> word,
             sources |-> t.nodes[word].sources,
             score |-> t.nodes[word].base_score] >>

RECURSIVE gather(_, _)
\* the terminals under path in the order gather() visits them
gather(t, path) ==
    LET node == t.nodes[path]
    IN  (IF node.terminal
         THEN << [score |-> node.base_score, word |-> path, sources |-> node.sources] >>
         ELSE <<>>)
        \o Join([i \in 1..Len(node.children) |-> gather(t, Append(path, node.children[i]))])

\* comparison of the heap entries (score, word, sources); words are distinct
EntryLess(a, b) ==
    a.score < b.score \/ (a.score = b.score /\ StrLess(a.word, b.word))

\* heap[0]: the heap is kept as the set of its entries
HeapTop(heap) == CHOOSE e \in heap : \A f \in heap : f = e \/ EntryLess(e, f)

\* push that keeps the first limit entries it meets
push_first_come(heap, entry, limit) ==
    IF Cardinality(heap) < limit THEN heap \cup {entry} ELSE heap

push(heap, entry, limit) ==
    IF Cardinality(heap) < limit THEN heap \cup {entry}
    ELSE LET worst == HeapTop(heap)
         IN  IF \/ entry.score > worst.score
                \/ (entry.score = worst.score /\ StrLess(entry.word, worst.word))
             THEN (heap \ {worst}) \cup {entry}
             ELSE heap

RECURSIVE pushAll(_, _, _)
pushAll(heap, entries, limit) ==
    IF entries = <<>> THEN heap
    ELSE pushAll(push(heap, Head(entries), limit), Tail(entries), limit)

\* collected.sort(key=lambda item: (-item[0], item[1]))
IterLess(a, b) ==
    a.score > b.score \/ (a.score = b.score /\ StrLess(a.word, b.word))

\* limit is <<>> for None and <<k>> for the integer k; the result is the list
\* the generator yields with with_metadata=True
iter_words_with_prefix(t, prefix, limit) ==
    IF limit # <<>> /\ limit[1] <= 0 THEN <<>>
    ELSE IF ~walk(t, prefix, 1) THEN <<>>
    ELSE LET found == gather(t, prefix)
         IN  IF limit = <<>>
             THEN SortBy(found, IterLess)
             ELSE SetToSeq(pushAll({}, found, limit[1]), IterLess)

----------------------------------------------------------------------------
(* Lexicon builder: the records and the trie made from them *)

\* WordRecord.score of a record with these sources
record_score(sources) ==
    IF sources = {} THEN 0 ELSE Max({source_weight(src) : src \in sources})

\* a sort key without the word: (-record.score)
RecordLess_by_score(a, b) == record_score(a.sources) > record_score(b.sources)

\* key=lambda record: (-record.score, record.word)
RecordLess(a, b) ==
    \/ record_score(a.sources) > record_score(b.sources)
    \/ (record_score(a.sources) = record_score(b.sources) /\ StrLess(a.word, b.word))

RECURSIVE insert_all(_, _)
insert_all(t, records) ==
    IF records = <<>> THEN t
    ELSE insert_all(insert(t, Head(records).word, Head(records).sources), Tail(records))

\* the trie of build_and_save_trie for the registry reg (word -> sources),
\* inserted in the order build_lexicon returns the records
build_trie(reg) ==
    insert_all(NewTrie,
               SetToSeq({[word |-> w, sources |-> reg[w]] : w \in DOMAIN reg}, RecordLess))

----------------------------------------------------------------------------
(* Scoring helpers and pure functions of the search *)

score_word(t, word) ==
    LET info == get_word_info(t, word)
        base == IF info # <<>> THEN info[1].score ELSE 0
        length_bonus == LENGTH_BONUS * Max({0, Len(word) - 1})
    IN  base + length_bonus

score_prefix_hint(t, prefix) ==
    LET iterator == iter_words_with_prefix(t, prefix, <<1>>)
        score == IF iterator # <<>> THEN iterator[1].score ELSE 0
    IN  HINT_PER_SYLLABLE * Len(prefix) + (HINT_SCORE_SHARE * score) \div 10

\* s[:k]
Slice(s, k) ==
    LET n == Len(s)
        m == IF k >= 0 THEN (IF k < n THEN k ELSE n)
                       ELSE (IF n + k > 0 THEN n + k ELSE 0)
    IN  SubSeq(s, 1, m)

ScoreGreater(x, y) == x.score > y.score

\* prune_to_beam without the sort: the first k states, whatever their scores
prune_unsorted(frontier, k) == Slice(frontier, k)

\* prune_to_beam with the sort in ascending order of the score
prune_worst_first(frontier, k) ==
    Slice(SortBy(frontier, LAMBDA x, y : x.score < y.score), k)

\* frontier.sort(key=lambda x: x[0], reverse=True); return frontier[:k]
prune_to_beam(frontier, k) == Slice(SortBy(frontier, ScoreGreater), k)

\* key=lambda w: (-len(w), w)
WordKeyLess(u, v) == Len(u) > Len(v) \/ (Len(u) = Len(v) /\ StrLess(u, v))

\* canonicalise_words that sorts in both modes
canonicalise_words_sorted(words, keep) == SortBy(words, WordKeyLess)

\* return words if keep_order else tuple(sorted(words, key=...))
canonicalise_words(words, keep_order) ==
    IF keep_order THEN words ELSE SortBy(words, WordKeyLess)

combination_sort_key(combo) ==
    LET words == combo.words
        multi == Cardinality({i \in DOMAIN words : Len(words[i]) > 1})
        singles == Len(words) - multi
        length_sum == SumSeq([i \in DOMAIN words |-> Len(words[i])])
    IN  << -multi, singles, Len(words), -combo.score, -length_sum, combo.combo >>

\* k1 < k2 for two sort keys (tuple comparison, the last component a string)
KeyLess(k1, k2) ==
    \/ \E i \in 1..5 : (\A j \in 1..(i - 1) : k1[j] = k2[j]) /\ k1[i] < k2[i]
    \/ ((\A j \in 1..5 : k1[j] = k2[j]) /\ StrLess(k1[6], k2[6]))

ComboLess(a, b) == KeyLess(combination_sort_key(a), combination_sort_key(b))

\* Counter(initials): (letter, count) pairs in order of first occurrence
Counter(initials) ==
    LET firsts == {i \in DOMAIN initials : \A j \in 1..(i - 1) : initials[j] # initials[i]}
        idx == SetToSeq(firsts, LAMBDA a, b : a < b)
    IN  [k \in 1..Len(idx) |->
            << initials[idx[k]],
               Cardinality({j \in DOMAIN initials : initials[j] = initials[idx[k]]}) >>]

ItemLess(a, b) == a[1] < b[1] \/ (a[1] = b[1] /\ a[2] < b[2])

\* the items of the counter in the order the counter holds them, unsorted
sorted_items_as_given(counter) == counter

\* tuple(sorted(counter.items()))
sorted_items(counter) == SortBy(counter, ItemLess)

\* take_letter with the letter dropped whatever its count
take_letter_all(counter, i) ==
    SubSeq(counter, 1, i - 1) \o SubSeq(counter, i + 1, Len(counter))

\* take_letter that takes nothing: the letter is used and stays available
take_letter_none(counter, i) == counter

\* take_letter without the del: a letter that is used up stays, with count 0
take_letter_keep_zero(counter, i) == [counter EXCEPT ![i] = << @[1], @[2] - 1 >>]

\* remaining_copy[letter] -= 1, deleted at 0, for the i-th item of the counter
take_letter(counter, i) ==
    IF counter[i][2] - 1 = 0
    THEN SubSeq(counter, 1, i - 1) \o SubSeq(counter, i + 1, Len(counter))
    ELSE [counter EXCEPT ![i] = << @[1], @[2] - 1 >>]

SOURCE_ORDER == << SOURCE_URIMAL, SOURCE_STD, SOURCE_BASIC >>

\* sorted(info["sources"])
sorted_sources(S) == SelectSeq(SOURCE_ORDER, LAMBDA x : x \in S)

----------------------------------------------------------------------------
(* generate_initial_combos: the state of one call *)

VARIABLES
    trie,            \* KOREAN_LEXICON_TRIE
    initials,        \* arguments of the call
    beam_width,
    max_candidates,
    keep_order,
    trace,
    frontier,        \* list of [score, remaining, prefix, words]
    results,         \* list of InitialCombo
    trace_log,       \* the events logged so far (stays empty when trace is off)
    frontier_peak,   \* the longest frontier handed to prune_to_beam so far
    pushed,          \* every state appended to the frontier, in the order of the appends
    ordered,         \* the returned candidate list
    pc               \* "loop" while the while loop runs, "done" after the return

\* The state of the other operations of the program; a call of
\* generate_initial_combos leaves all of it alone.
VARIABLES
    inserted,        \* the (word, sources) pairs Trie.insert was called with
    yielded,         \* the last query made of the trie, with its answer
    raw,             \* the string handed to normalize_word
    outputs,         \* what normalize_word returned, applied once and then again
    payload,         \* the parsed JSON document handed to an extractor
    parsed,          \* what the extractor did with it
    files,           \* the files build_lexicon finds: name -> source and outcome
    pending,         \* the names of the files not yet processed
    registry,        \* build_lexicon's registry: word -> sources
    records,         \* the list build_lexicon returns
    build_pc,        \* "gather" while files are read, "done" after the return
    previous         \* the answers of the earlier calls with the same arguments

lexicon_state == << inserted, yielded, raw, outputs, payload, parsed,
                    files, pending, registry, records, build_pc >>

vars == << trie, initials, beam_width, max_candidates, keep_order, trace,
           frontier, results, trace_log, frontier_peak, pushed, ordered, pc,
           lexicon_state, previous >>

args == << trie, initials, beam_width, max_candidates, keep_order, trace >>

\* no query made yet
NoQuery == [op |-> "none"]

TrieIdle == inserted = {} /\ yielded = NoQuery

NormalizerIdle == raw = <<>> /\ outputs = <<>>

ParserIdle == payload = <<>> /\ parsed = <<>>

BuilderIdle ==
    /\ files = <<>>
    /\ pending = {}
    /\ registry = <<>>
    /\ records = <<>>
    /\ build_pc = "idle"

\* no call of generate_initial_combos is in progress
SearchIdle ==
    /\ initials = <<>>
    /\ beam_width = DEFAULT_BEAM_WIDTH
    /\ max_candidates = DEFAULT_MAX_CANDIDATES
    /\ keep_order = FALSE
    /\ trace = FALSE
    /\ frontier = <<>>
    /\ results = <<>>
    /\ trace_log = <<>>
    /\ frontier_peak = 0
    /\ pushed = <<>>
    /\ ordered = <<>>
    /\ pc = "idle"
    /\ previous = <<>>

\* loop_continues that admits one result too many
loop_continues_inclusive(fr, res, maxc) == fr # <<>> /\ Len(res) <= maxc

\* while frontier and len(results) < max_candidates
loop_continues(fr, res, maxc) == fr # <<>> /\ Len(res) < maxc

\* accept_final without the lookup of the last word
accept_final_any(t, current_prefix) == TRUE

\* if not current_prefix or KOREAN_LEXICON_TRIE.contains(current_prefix)
accept_final(t, current_prefix) ==
    current_prefix = <<>> \/ contains(t, current_prefix)

can_extend(t, current_prefix, remaining) ==
    \E i \in DOMAIN remaining :
        has_word_with_prefix(t, current_prefix \o << remaining[i][1] >>)

\* skip_commit that never skips
skip_commit_never(t, current_prefix, remaining) == FALSE

\* skip_commit that skips every one-syllable word
skip_commit_single(t, current_prefix, remaining) == Len(current_prefix) = 1

\* if len(current_prefix) == 1 and can_extend: pass
skip_commit(t, current_prefix, remaining) ==
    Len(current_prefix) = 1 /\ can_extend(t, current_prefix, remaining)

\* the InitialCombo built from the completed words of a finished state
make_combo(t, completed_words, keep, inits) ==
    LET canonical_words == canonicalise_words(completed_words, keep)
        word_infos == [i \in DOMAIN canonical_words |-> get_word_info(t, canonical_words[i])]
        scores == [i \in DOMAIN canonical_words |-> score_word(t, canonical_words[i])]
    IN  [combo |-> Join(canonical_words),
         words |-> canonical_words,
         word_sources |-> [i \in DOMAIN canonical_words |->
                              IF word_infos[i] # <<>>
                              THEN sorted_sources(word_infos[i][1].sources)
                              ELSE <<>>],
         word_scores |-> scores,
         coverage |-> inits,
         mode |-> IF keep THEN "sequence" ELSE "bag",
         score |-> SumSeq(scores) - SEGMENT_PENALTY * Len(canonical_words)]

\* commit_states with the append to the frontier inside the block that logs
commit_states_when_traced(t, st) ==
    IF /\ trace
       /\ st.prefix # <<>>
       /\ contains(t, st.prefix)
       /\ ~skip_commit(t, st.prefix, st.remaining)
    THEN << [score |-> st.score + score_word(t, st.prefix),
             remaining |-> sorted_items(st.remaining),
             prefix |-> <<>>,
             words |-> Append(st.words, st.prefix)] >>
    ELSE <<>>

\* the states the commit transition appends for the popped state st
commit_states(t, st) ==
    IF st.prefix # <<>> /\ contains(t, st.prefix) /\ ~skip_commit(t, st.prefix, st.remaining)
    THEN << [score |-> st.score + score_word(t, st.prefix),
             remaining |-> sorted_items(st.remaining),
             prefix |-> <<>>,
             words |-> Append(st.words, st.prefix)] >>
    ELSE <<>>

\* the states the extend transitions append, in the order of the letters
extend_states(t, st) ==
    LET one(i) ==
            LET next_prefix == st.prefix \o << st.remaining[i][1] >>
            IN  IF ~has_word_with_prefix(t, next_prefix) THEN <<>>
                ELSE << [score |-> st.score + score_prefix_hint(t, next_prefix),
                         remaining |-> sorted_items(take_letter(st.remaining, i)),
                         prefix |-> next_prefix,
                         words |-> st.words] >>
    IN  Join([i \in DOMAIN st.remaining |-> one(i)])

\* dedupe that keeps every result
dedupe_none(res) == res

RECURSIVE dedupe(_)
\* the values of the dict deduped, in the order of the dict
dedupe(res) ==
    IF res = <<>> THEN <<>>
    ELSE LET acc == dedupe(SubSeq(res, 1, Len(res) - 1))
             combo == res[Len(res)]
             hit == {i \in DOMAIN acc : acc[i].words = combo.words}
         IN  IF hit = {} THEN Append(acc, combo)
             ELSE LET i == CHOOSE j \in hit : TRUE
                  IN  IF combo.score > acc[i].score
                      THEN [acc EXCEPT ![i] = combo]
                      ELSE acc

\* a ranking by score alone, best first
rank_by_score(deduped) == SortBy(deduped, ScoreGreater)

\* sorted((c.as_dict() for c in deduped.values()), key=combination_sort_key)
rank(deduped) == SortBy(deduped, ComboLess)

PopEvent(st, rest) ==
    [event |-> "pop", score |-> st.score, prefix |-> st.prefix, words |-> st.words,
     remaining |-> st.remaining, frontier_size |-> Len(rest)]

ResultEvent(c) ==
    [event |-> "result", combo |-> c.combo, words |-> c.words,
     word_scores |-> c.word_scores, score |-> c.score]

CommitEvent(st, c) ==
    [event |-> "commit", word |-> st.prefix, words |-> c.words, score |-> c.score,
     remaining |-> st.remaining]

ExtendEvent(c) ==
    [event |-> "extend", letter |-> c.prefix[Len(c.prefix)], next_prefix |-> c.prefix,
     score |-> c.score, remaining |-> c.remaining]

PruneEvent(fr) == [event |-> "prune", frontier_size |-> Len(fr)]

CompleteEvent(out) == [event |-> "complete", result_count |-> Len(out)]

\* a log that puts the newest events first
Log_newest_first(events) == IF trace THEN events \o trace_log ELSE trace_log

\* if trace_log is not None: trace_log.append(event), for each event in turn
Log(events) == IF trace THEN trace_log \o events ELSE trace_log

----------------------------------------------------------------------------
(* The inputs of a call *)

Syllables == 1..NSyl

AllWords == UNION {[1..n -> Syllables] : n \in 1..MaxWordLen}

\* the source sets a word of the registry may have
SourceSets == {{SOURCE_URIMAL}, {SOURCE_STD, SOURCE_BASIC}}

\* the registries of build_lexicon: word -> sources
Lexicons ==
    UNION {[W -> SourceSets] : W \in {X \in SUBSET AllWords : Cardinality(X) <= MaxWords}}

InitialsLists == UNION {[1..n -> Syllables] : n \in 0..MaxLen}

BeamWidths == {-1, 0} \cup (1..MaxBeam) \cup {DEFAULT_BEAM_WIDTH}

CandidateLimits == {0} \cup (1..MaxCand) \cup {DEFAULT_MAX_CANDIDATES}

\* the state at the first test of the while condition
Start(lexicons, inputs, widths, limits) ==
    /\ trie \in {build_trie(reg) : reg \in lexicons}
    /\ initials \in inputs
    /\ beam_width \in widths
    /\ max_candidates \in limits
    /\ keep_order \in BOOLEAN
    /\ trace \in BOOLEAN
    /\ frontier = << [score |-> 0, remaining |-> sorted_items(Counter(initials)),
                      prefix |-> <<>>, words |-> <<>>] >>
    /\ results = <<>>
    /\ trace_log = <<>>
    /\ frontier_peak = 0
    /\ pushed = frontier
    /\ ordered = <<>>
    /\ pc = "loop"
    /\ previous = <<>>
    /\ TrieIdle /\ NormalizerIdle /\ ParserIdle /\ BuilderIdle

Init == Start(Lexicons, InitialsLists, BeamWidths, CandidateLimits)

----------------------------------------------------------------------------
(* One action per turn of the while loop, and one for the code after it *)

\* a turn that pops a state with nothing remaining: finalise, then continue
PopFinal ==
    /\ pc = "loop"
    /\ loop_continues(frontier, results, max_candidates)
    /\ LET st == Head(frontier)
           rest == Tail(frontier)
       IN  /\ st.remaining = <<>>
           /\ frontier' = rest
           /\ IF accept_final(trie, st.prefix)
              THEN LET completed_words ==
                           st.words \o (IF st.prefix # <<>> THEN << st.prefix >> ELSE <<>>)
                       combo == make_combo(trie, completed_words, keep_order, initials)
                   IN  /\ results' = Append(results, combo)
                       /\ trace_log' = Log(<< PopEvent(st, rest), ResultEvent(combo) >>)
              ELSE /\ results' = results
                   /\ trace_log' = Log(<< PopEvent(st, rest) >>)
    /\ UNCHANGED << args, frontier_peak, pushed, ordered, pc, lexicon_state, previous >>

\* a turn that pops a state with syllables remaining: commit, extend, prune
PopExpand ==
    /\ pc = "loop"
    /\ loop_continues(frontier, results, max_candidates)
    /\ LET st == Head(frontier)
           rest == Tail(frontier)
           commits == commit_states(trie, st)
           extends == extend_states(trie, st)
           grown == rest \o commits \o extends
           pruned == prune_to_beam(grown, beam_width)
       IN  /\ st.remaining # <<>>
           /\ frontier' = pruned
           /\ frontier_peak' = IF Len(grown) > frontier_peak THEN Len(grown) ELSE frontier_peak
           /\ pushed' = pushed \o commits \o extends
           /\ trace_log' = Log(<< PopEvent(st, rest) >>
                               \o [i \in DOMAIN commits |-> CommitEvent(st, commits[i])]
                               \o [i \in DOMAIN extends |-> ExtendEvent(extends[i])]
                               \o << PruneEvent(pruned) >>)
    /\ UNCHANGED << args, results, ordered, pc, lexicon_state, previous >>

\* the code after the loop: deduplicate, rank, return
Complete ==
    /\ pc = "loop"
    /\ ~loop_continues(frontier, results, max_candidates)
    /\ ordered' = rank(dedupe(results))
    /\ trace_log' = Log(<< CompleteEvent(ordered') >>)
    /\ pc' = "done"
    /\ UNCHANGED << args, frontier, results, frontier_peak, pushed, lexicon_state, previous >>

Next == PopFinal \/ PopExpand \/ Complete

Spec == Init /\ [][Next]_vars

\* The call runs on: a turn of the loop, or the code after it, that can be
\* executed is executed.  This is weak fairness of Next, with the enabling
\* condition of a step of Next written as the state predicate it is equal to:
\* the three actions divide the states with pc = "loop" among them, and each
\* of them changes the frontier or pc.
Fairness == []<>(pc # "loop") \/ []<><< Next >>_vars

SpecLive == Init /\ [][Next]_vars /\ Fairness

----------------------------------------------------------------------------
(* A second family of inputs: five distinct syllables and words of two and *)
(* three syllables, for the cases the ranking of longer inputs needs.      *)

RankWords == { <<1, 2>>, <<3, 4, 5>>, <<1, 2, 3>>, <<4, 5>> }

RankLexicons == UNION {[W -> SourceSets] : W \in SUBSET RankWords}

RankInitials == { <<1, 2, 3, 4, 5>>, <<4, 5, 1, 2, 3>>, <<1, 2, 4, 5>> }

InitRank ==
    Start(RankLexicons, RankInitials, {DEFAULT_BEAM_WIDTH}, {DEFAULT_MAX_CANDIDATES})

SpecRank == InitRank /\ [][Next]_vars

----------------------------------------------------------------------------
(* A third family of inputs: four distinct syllables that can be cut into   *)
(* one word of four syllables, two words of two, or words of one syllable.  *)

OrderWords == { <<1, 2>>, <<3, 4>>, <<1, 2, 3, 4>>, <<3>>, <<4>> }

OrderLexicons == UNION {[W -> SourceSets] : W \in SUBSET OrderWords}

OrderInitials == { <<1, 2, 3, 4>>, <<3, 4, 1, 2>> }

InitOrder ==
    Start(OrderLexicons, OrderInitials, {DEFAULT_BEAM_WIDTH}, {DEFAULT_MAX_CANDIDATES})

SpecOrder == InitOrder /\ [][Next]_vars

----------------------------------------------------------------------------
(* Vocabulary of the properties *)

\* the multiset of the syllables of a list of syllables
Bag(s) == [x \in Range(s) |-> Cardinality({i \in DOMAIN s : s[i] = x})]

\* the words s is cut into by the cut positions C
Pieces(s, C) ==
    LET ends == SetToSeq(C \cup {Len(s)}, LAMBDA a, b : a < b)
    IN  [k \in 1..Len(ends) |-> SubSeq(s, IF k = 1 THEN 1 ELSE ends[k - 1] + 1, ends[k])]

\* the non-empty lists of trie words whose concatenation is s
Segmentations(t, s) ==
    IF s = <<>> THEN {}
    ELSE {p \in {Pieces(s, C) : C \in SUBSET (1..(Len(s) - 1))} :
             \A i \in DOMAIN p : contains(t, p[i])}

\* no one-syllable word of seg but the last can be extended, to a prefix of
\* the trie, by a syllable of the words after it
NoExtensibleSingle(t, seg) ==
    \A i \in 1..(Len(seg) - 1) :
        Len(seg[i]) = 1 =>
            \A j \in (i + 1)..Len(seg) : \A k \in DOMAIN seg[j] :
                ~has_word_with_prefix(t, seg[i] \o << seg[j][k] >>)

Returned(words) == \E i \in DOMAIN ordered : ordered[i].words = words

\* pruning never dropped a state and the loop ran until the frontier was empty
Exhaustive ==
    /\ pc = "done"
    /\ beam_width >= frontier_peak
    /\ max_candidates > Len(results)

----------------------------------------------------------------------------
(* C1: in sequence mode the words of every returned candidate, concatenated *)
(* in output order, are the input syllables in input order.                 *)
C1_SequenceConcat ==
    (pc = "done" /\ keep_order) =>
        \A i \in DOMAIN ordered : Join(ordered[i].words) = initials

(* C2: in both modes the multiset of the syllables of the words of every    *)
(* candidate, collected or returned, is the multiset of the input: every    *)
(* occurrence of an input syllable is used exactly once.                    *)
C2_MultisetPreserved ==
    /\ \A i \in DOMAIN results : Bag(Join(results[i].words)) = Bag(initials)
    /\ \A i \in DOMAIN ordered : Bag(Join(ordered[i].words)) = Bag(initials)

C2_Witness ==
    /\ pc = "done"
    /\ \E i, j \in DOMAIN initials : i # j /\ initials[i] = initials[j]
    /\ \E i \in DOMAIN ordered : Len(ordered[i].words) >= 2

(* C3: every word of every candidate, collected or returned, is a terminal  *)
(* word of the trie, the last word (taken from the current prefix) included.*)
C3_WordsInTrie ==
    /\ \A i \in DOMAIN results : \A k \in DOMAIN results[i].words :
           contains(trie, results[i].words[k])
    /\ \A i \in DOMAIN ordered : \A k \in DOMAIN ordered[i].words :
           contains(trie, ordered[i].words[k])

\* a candidate was returned although some state with nothing remaining ended
\* on a prefix that is no word
C3_Witness ==
    /\ pc = "done"
    /\ trace
    /\ ordered # <<>>
    /\ \E i \in DOMAIN trace_log :
           /\ trace_log[i].event = "pop"
           /\ trace_log[i].remaining = <<>>
           /\ trace_log[i].prefix # <<>>
           /\ ~contains(trie, trace_log[i].prefix)

(* C4: for empty initials the call returns no candidate, and with trace on  *)
(* the trace holds exactly one complete event, whose result_count is 0.     *)
C4_EmptyInitials ==
    (pc = "done" /\ initials = <<>>) =>
        /\ ordered = <<>>
        /\ trace =>
             /\ Cardinality({i \in DOMAIN trace_log : trace_log[i].event = "complete"}) = 1
             /\ \A i \in DOMAIN trace_log :
                    trace_log[i].event = "complete" => trace_log[i].result_count = 0

(* C5: a call with beam_width < 1 or max_candidates < 1 is rejected: it     *)
(* never runs the search loop and never returns a candidate list.           *)
C5_InvalidArgumentRejected ==
    (beam_width < 1 \/ max_candidates < 1) => (pc = "loop" /\ frontier_peak = 0 /\ results = <<>>)

(* C6 as stated: when pruning dropped nothing and the loop ran to the end,  *)
(* in sequence mode every list of trie words whose concatenation is the     *)
(* input is among the returned candidates.                                  *)
C6_EverySegmentation ==
    (Exhaustive /\ keep_order) =>
        \A seg \in Segmentations(trie, initials) : Returned(seg)

(* C6 amended: when pruning dropped nothing and the loop ran to the end, in *)
(* sequence mode every list of trie words whose concatenation is the input  *)
(* and in which no one-syllable word but the last can be extended, to a     *)
(* prefix of the trie, by a syllable of the words after it, is returned.    *)
C6_EveryAllowedSegmentation ==
    (Exhaustive /\ keep_order) =>
        \A seg \in Segmentations(trie, initials) :
            NoExtensibleSingle(trie, seg) => Returned(seg)

\* a run that returns a segmentation of two words and leaves another one out
C6_Witness ==
    /\ Exhaustive
    /\ keep_order
    /\ \E seg \in Segmentations(trie, initials) :
           Len(seg) >= 2 /\ NoExtensibleSingle(trie, seg) /\ Returned(seg)
    /\ \E seg \in Segmentations(trie, initials) : ~NoExtensibleSingle(trie, seg)

(* C7: a state made by committing a one-syllable word w with syllables R    *)
(* remaining has no s in R with w+s a prefix of the trie; so say the commit *)
(* events of the trace, and no sequence-mode candidate holds a one-syllable *)
(* word, before its last, that a syllable of its later words extends.       *)
C7_SingleSyllableCommit ==
    /\ \A i \in DOMAIN frontier :
           LET st == frontier[i]
           IN  (st.prefix = <<>> /\ st.words # <<>> /\ Len(st.words[Len(st.words)]) = 1)
                   => ~can_extend(trie, st.words[Len(st.words)], st.remaining)
    /\ \A i \in DOMAIN trace_log :
           (trace_log[i].event = "commit" /\ Len(trace_log[i].word) = 1)
               => \A k \in DOMAIN trace_log[i].remaining :
                      ~has_word_with_prefix(trie,
                           trace_log[i].word \o << trace_log[i].remaining[k][1] >>)
    /\ keep_order => \A i \in DOMAIN results : NoExtensibleSingle(trie, results[i].words)

\* a one-syllable word was committed with syllables remaining, and a
\* candidate that holds it was returned
C7_Witness ==
    /\ pc = "done"
    /\ keep_order
    /\ \E i \in DOMAIN trace_log :
           /\ trace_log[i].event = "commit"
           /\ Len(trace_log[i].word) = 1
           /\ trace_log[i].remaining # <<>>
    /\ \E i \in DOMAIN ordered :
           Len(ordered[i].words) >= 2 /\ Len(ordered[i].words[1]) = 1

(* C8: no two returned candidates have the same word tuple, in either mode. *)
C8_NoDuplicateTuples ==
    \A i, j \in DOMAIN ordered : i # j => ordered[i].words # ordered[j].words

\* bag mode: two collected results with the same canonical words collapsed
C8_Witness ==
    /\ pc = "done"
    /\ ~keep_order
    /\ \E i, j \in DOMAIN results : i # j /\ results[i].words = results[j].words
    /\ ordered # <<>>

(* C9: any two distinct candidates one call returns have different ranking  *)
(* keys.                                                                    *)
C9_RankingTotal ==
    \A i, j \in DOMAIN ordered :
        ordered[i].words # ordered[j].words
            => combination_sort_key(ordered[i]) # combination_sort_key(ordered[j])

(* C10: for max_candidates >= 1 at most max_candidates candidates are       *)
(* collected and returned, and once max_candidates results are collected no *)
(* further state is popped.                                                 *)
C10_AtMostMaxCandidates ==
    /\ [](max_candidates >= 1 =>
             (Len(results) <= max_candidates /\ Len(ordered) <= max_candidates))
    /\ [][(max_candidates >= 1 /\ Len(results) >= max_candidates)
             => (frontier' = frontier /\ results' = results)]_vars

\* the loop stopped at max_candidates results with states left in the frontier
C10_Witness ==
    /\ pc = "done"
    /\ max_candidates >= 1
    /\ Len(results) = max_candidates
    /\ Len(ordered) = max_candidates
    /\ frontier # <<>>

----------------------------------------------------------------------------
(* The trie as a library: inserts in any order, and the queries of it *)

MaxInserts == 3
MaxLimit == 2

\* the words and prefixes handed to the trie, the empty string among them
TrieWords == AllWords \cup {<<>>}

\* the sources argument of insert: nothing, one tag, several tags, a tag
\* that has no weight
InsertSources == {{}, {SOURCE_URIMAL}, {SOURCE_STD, SOURCE_BASIC}, {"OTHER"}}

\* the limit argument: None, zero, a positive count
Limits == {<<>>} \cup {<< k >> : k \in 0..MaxLimit}

\* a walk that creates the nodes it misses, as the walk of insert does
walked_setdefault(t, word, i) == [t EXCEPT !.nodes = descend(t.nodes, word, i)]

RECURSIVE walked(_, _, _)
\* the trie a query leaves behind after node = node.children.get(ch) for
\* every ch of word: get adds no child, so every node is as it was
walked(t, word, i) ==
    IF i > Len(word) THEN t
    ELSE IF word[i] \in Range(t.nodes[SubSeq(word, 1, i - 1)].children)
         THEN walked(t, word, i + 1)
         ELSE t

InitTrie ==
    /\ trie = NewTrie
    /\ TrieIdle /\ SearchIdle /\ NormalizerIdle /\ ParserIdle /\ BuilderIdle

\* One call runs at a time: an operation starts when the answer of the one
\* before it has been taken (yielded is NoQuery again).
Insert(word, sources) ==
    /\ pc = "idle"
    /\ yielded = NoQuery
    /\ Cardinality(inserted \cup {<< word, sources >>}) <= MaxInserts
    /\ trie' = insert(trie, word, sources)
    /\ inserted' = inserted \cup {<< word, sources >>}
    /\ yielded' = NoQuery
    /\ UNCHANGED << initials, beam_width, max_candidates, keep_order, trace,
                    frontier, results, trace_log, frontier_peak, pushed, ordered, pc,
                    raw, outputs, payload, parsed,
                    files, pending, registry, records, build_pc, previous >>

\* what a query leaves alone besides the trie
QueryFrame ==
    UNCHANGED << inserted, initials, beam_width, max_candidates, keep_order, trace,
                 frontier, results, trace_log, frontier_peak, pushed, ordered, pc,
                 raw, outputs, payload, parsed,
                 files, pending, registry, records, build_pc, previous >>

Contains(word) ==
    /\ pc = "idle"
    /\ yielded = NoQuery
    /\ yielded' = [op |-> "contains", word |-> word, answer |-> contains(trie, word)]
    /\ trie' = walked(trie, word, 1)
    /\ QueryFrame

HasPrefix(prefix) ==
    /\ pc = "idle"
    /\ yielded = NoQuery
    /\ yielded' = [op |-> "has_prefix", word |-> prefix,
                   answer |-> has_word_with_prefix(trie, prefix)]
    /\ trie' = walked(trie, prefix, 1)
    /\ QueryFrame

Lookup(word) ==
    /\ pc = "idle"
    /\ yielded = NoQuery
    /\ yielded' = [op |-> "lookup", word |-> word, answer |-> get_word_info(trie, word)]
    /\ trie' = walked(trie, word, 1)
    /\ QueryFrame

IterPrefix(prefix, limit) ==
    /\ pc = "idle"
    /\ yielded = NoQuery
    /\ yielded' = [op |-> "iter", word |-> prefix, limit |-> limit,
                   answer |-> iter_words_with_prefix(trie, prefix, limit)]
    /\ trie' = walked(trie, prefix, 1)
    /\ QueryFrame

\* the caller takes the answer of the query
Return ==
    /\ pc = "idle"
    /\ yielded # NoQuery
    /\ yielded' = NoQuery
    /\ UNCHANGED trie
    /\ QueryFrame

NextTrie ==
    \/ \E word \in TrieWords, sources \in InsertSources : Insert(word, sources)
    \/ \E word \in TrieWords : Contains(word)
    \/ \E prefix \in TrieWords : HasPrefix(prefix)
    \/ \E word \in TrieWords : Lookup(word)
    \/ \E prefix \in TrieWords, limit \in Limits : IterPrefix(prefix, limit)
    \/ Return

SpecTrie == InitTrie /\ [][NextTrie]_vars

\* the terminals under the prefix of the last iter query
UnderPrefix ==
    IF has_word_with_prefix(trie, yielded.word)
    THEN Range(gather(trie, yielded.word))
    ELSE {}

\* C11: with a limit k >= 1, iter_words_with_prefix yields exactly the first k
\* items of the unlimited call on the same trie and prefix (the top k by
\* descending score, ties to the smaller word).
C11_LimitIsTopK ==
    (yielded.op = "iter" /\ yielded.limit # <<>> /\ yielded.limit[1] >= 1)
        => yielded.answer
             = Slice(iter_words_with_prefix(trie, yielded.word, <<>>), yielded.limit[1])

\* the answer of the last iter query is in the order (-score, word ascending)
AnswerInOrder ==
    \A i \in 1..(Len(yielded.answer) - 1) :
        IterLess(yielded.answer[i], yielded.answer[i + 1])

\* the terminals under the prefix that the last iter query did not yield
NotYielded == UnderPrefix \ Range(yielded.answer)

\* C12: the items yielded with a limit k are in the order (-score, word
\* ascending), and the score of the last yielded item is at least the score of
\* every terminal under the prefix that was not yielded.
C12_LimitedOrderAndScores ==
    (yielded.op = "iter" /\ yielded.limit # <<>>)
        => /\ AnswerInOrder
           /\ Range(yielded.answer) \subseteq UnderPrefix
           /\ yielded.answer # <<>> =>
                \A e \in NotYielded :
                    yielded.answer[Len(yielded.answer)].score >= e.score

\* a limited query that yielded two items of different scores and left out a
\* terminal that scores less than both
C12_Witness ==
    /\ yielded.op = "iter"
    /\ yielded.limit = << 2 >>
    /\ Len(yielded.answer) = 2
    /\ yielded.answer[1].score > yielded.answer[2].score
    /\ \E e \in NotYielded : e.score < yielded.answer[2].score

\* what lookup(word) answers in the current trie
Info(word) == get_word_info(trie, word)

\* an insert removes no word, no source tag, and lowers no score
InsertKeeps ==
    \A word \in TrieWords :
        contains(trie, word) =>
            /\ contains(trie', word)
            /\ trie.nodes[word].sources \subseteq trie'.nodes[word].sources
            /\ trie.nodes[word].base_score <= trie'.nodes[word].base_score

\* every insert made so far, of a non-empty word, is still answered
InsertsAnswered ==
    \A call \in inserted :
        call[1] # <<>> =>
            /\ contains(trie, call[1])
            /\ Info(call[1]) # <<>>
            /\ call[2] \subseteq Info(call[1])[1].sources
            /\ \A source \in call[2] : Info(call[1])[1].score >= source_weight(source)

\* C13: after any sequence of inserts, every inserted (word, sources) with a
\* non-empty word is contained, its lookup carries at least the inserted
\* sources and a score at least the largest weight among them; and a later
\* insert never removes a word or a source tag and never lowers a score.
C13_InsertedWordsStay == []InsertsAnswered /\ [][InsertKeeps]_vars

\* one word inserted twice with different tags, then another word inserted
C13_Witness ==
    /\ Cardinality(inserted) = MaxInserts
    /\ \E a \in inserted, b \in inserted :
          a[1] = b[1] /\ a[1] # <<>> /\ a[2] # b[2] /\ a[2] # {} /\ b[2] # {}
    /\ Cardinality({call[1] : call \in inserted}) >= 2

\* C14: if contains(w) holds then has_prefix(p) holds for every prefix p of w,
\* the empty prefix and w itself included.
C14_PrefixesOfWords ==
    \A word \in TrieWords :
        contains(trie, word) =>
            \A i \in 0..Len(word) : has_word_with_prefix(trie, SubSeq(word, 1, i))

\* a word of two syllables is in the trie and its first syllable is not a word
C14_Witness ==
    \E word \in TrieWords :
        /\ Len(word) = 2
        /\ contains(trie, word)
        /\ ~contains(trie, SubSeq(word, 1, 1))
        /\ yielded.op = "has_prefix"
        /\ yielded.word = SubSeq(word, 1, 1)
        /\ yielded.answer

----------------------------------------------------------------------------
(* normalize_word.  A string is a sequence of characters, and a character   *)
(* is named by what the normalizer can tell about it:                        *)
(*   "ZW"  a zero-width character      "SHY" the soft hyphen                 *)
(*   "SP"  the space                   "TAB" another whitespace character    *)
(*   "D"   a digit                     "X"   any other non-Hangul character  *)
(*   "L" "V" "T"  a leading consonant, vowel and trailing consonant jamo     *)
(*   "GA" "GAG"   the precomposed syllables L+V and L+V+T (in U+AC00-D7A3)   *)

MaxRaw == 3

ZERO_WIDTH == {"ZW"}
SOFT_HYPHENS == {"SHY"}
WHITESPACE == {"SP", "TAB"}
DIGITS == {"D"}
HANGUL == {"GA", "GAG"}
Chars == ZERO_WIDTH \cup SOFT_HYPHENS \cup WHITESPACE \cup DIGITS \cup HANGUL
             \cup {"L", "V", "T", "X"}

RawStrings == UNION {[1..n -> Chars] : n \in 0..MaxRaw}

\* for ch in _ZERO_WIDTH + _SOFT_HYPHENS: s = s.replace(ch, "")
remove_zero_width(s) == SelectSeq(s, LAMBDA c : c \notin ZERO_WIDTH \cup SOFT_HYPHENS)

RECURSIVE lstrip(_)
lstrip(s) == IF s # <<>> /\ Head(s) \in WHITESPACE THEN lstrip(Tail(s)) ELSE s

RECURSIVE rstrip(_)
rstrip(s) ==
    IF s # <<>> /\ s[Len(s)] \in WHITESPACE THEN rstrip(SubSeq(s, 1, Len(s) - 1)) ELSE s

\* s.strip()
strip(s) == rstrip(lstrip(s))

RECURSIVE collapse_whitespace(_)
\* _WS.sub(" ", s): every run of whitespace becomes one space
collapse_whitespace(s) ==
    IF s = <<>> THEN <<>>
    ELSE IF Head(s) \in WHITESPACE
         THEN << "SP" >> \o collapse_whitespace(lstrip(s))
         ELSE << Head(s) >> \o collapse_whitespace(Tail(s))

RECURSIVE nfc(_)
\* ud.normalize("NFC", s): conjoining jamo compose, L V to the syllable and
\* the syllable L+V followed by T to the syllable L+V+T
nfc(s) ==
    IF Len(s) >= 2 /\ s[1] = "L" /\ s[2] = "V"
    THEN nfc(<< "GA" >> \o SubSeq(s, 3, Len(s)))
    ELSE IF Len(s) >= 2 /\ s[1] = "GA" /\ s[2] = "T"
    THEN << "GAG" >> \o nfc(SubSeq(s, 3, Len(s)))
    ELSE IF s = <<>> THEN <<>>
    ELSE << Head(s) >> \o nfc(Tail(s))

RECURSIVE strip_trailing_num(_)
\* _TRAILING_NUM.sub("", s)
strip_trailing_num(s) ==
    IF s # <<>> /\ s[Len(s)] \in DIGITS
    THEN strip_trailing_num(SubSeq(s, 1, Len(s) - 1))
    ELSE s

\* a filter that lets the conjoining jamo through as well
hangul_only_or_jamo(s) == SelectSeq(s, LAMBDA c : c \in HANGUL \cup {"L", "V", "T"})

\* _HANGUL_ONLY.sub("", s)
hangul_only(s) == SelectSeq(s, LAMBDA c : c \in HANGUL)

normalize_word(s) ==
    hangul_only(strip_trailing_num(nfc(collapse_whitespace(strip(remove_zero_width(s))))))

InitNormalize ==
    /\ raw \in RawStrings
    /\ outputs = <<>>
    /\ trie = NewTrie
    /\ TrieIdle /\ SearchIdle /\ ParserIdle /\ BuilderIdle

\* normalize_word applied to the raw string, then to its own output
Normalize ==
    /\ pc = "idle"
    /\ Len(outputs) < 2
    /\ outputs' = Append(outputs,
                         normalize_word(IF outputs = <<>> THEN raw ELSE outputs[Len(outputs)]))
    /\ UNCHANGED << trie, inserted, yielded, initials, beam_width, max_candidates,
                    keep_order, trace, frontier, results, trace_log, frontier_peak, pushed,
                    ordered, pc, raw, payload, parsed,
                    files, pending, registry, records, build_pc, previous >>

NextNormalize == Normalize

SpecNormalize == InitNormalize /\ [][NextNormalize]_vars

\* C15: normalize_word is idempotent, and its output holds Hangul syllables
\* (U+AC00 to U+D7A3) only.
C15_NormalizeIdempotentHangul ==
    /\ \A i \in DOMAIN outputs : Range(outputs[i]) \subseteq HANGUL
    /\ Len(outputs) = 2 => outputs[2] = outputs[1]

\* a raw string with jamo to compose and something to strip, normalized twice
C15_Witness ==
    /\ Len(outputs) = 2
    /\ outputs[1] # <<>>
    /\ "L" \in Range(raw)
    /\ Range(raw) \cap (ZERO_WIDTH \cup WHITESPACE \cup DIGITS) # {}
    /\ "GA" \in Range(outputs[1])

----------------------------------------------------------------------------
(* The same call made twice: first with trace off, then with trace on *)

InitTwice == Init /\ ~trace

\* the finished call is remembered and the call is made again with the same
\* trie and arguments, but the other value of trace
CallAgain ==
    /\ pc = "done"
    /\ previous = <<>>
    /\ previous' = << [trace |-> trace, ordered |-> ordered] >>
    /\ trace' = ~trace
    /\ frontier' = << [score |-> 0, remaining |-> sorted_items(Counter(initials)),
                       prefix |-> <<>>, words |-> <<>>] >>
    /\ results' = <<>>
    /\ trace_log' = <<>>
    /\ frontier_peak' = 0
    /\ pushed' = frontier'
    /\ ordered' = <<>>
    /\ pc' = "loop"
    /\ UNCHANGED << trie, initials, beam_width, max_candidates, keep_order, lexicon_state >>

NextTwice == PopFinal \/ PopExpand \/ Complete \/ CallAgain

SpecTwice == InitTwice /\ [][NextTwice]_vars

\* C16: for the same trie, initials, beam_width, max_candidates and
\* keep_order, the candidate list returned with trace on equals the candidate
\* list returned with trace off.
C16_TraceDoesNotChangeCandidates ==
    (pc = "done" /\ previous # <<>>) => ordered = previous[1].ordered

\* both calls have returned, the traced one logged a commit, and the list has
\* a candidate of two words
C16_Witness ==
    /\ pc = "done"
    /\ previous # <<>>
    /\ ~previous[1].trace
    /\ trace
    /\ \E i \in DOMAIN trace_log : trace_log[i].event = "commit"
    /\ \E i \in DOMAIN ordered : Len(ordered[i].words) = 2
    /\ beam_width = 1

----------------------------------------------------------------------------
(* The three extractors.  A JSON value is a record tagged with its type:   *)
(* a mapping carries its items, a list its elements, a string its          *)
(* characters.                                                             *)

None == [t |-> "null"]
Dict(m) == [t |-> "dict", m |-> m]
List(a) == [t |-> "list", a |-> a]
Str(s) == [t |-> "str", s |-> s]

\* d.get(key) for a mapping d
get(d, key) == IF key \in DOMAIN d.m THEN d.m[key] ELSE None

\* bool(value)
truthy(v) ==
    CASE v.t = "null" -> FALSE
      [] v.t = "dict" -> DOMAIN v.m # {}
      [] v.t = "list" -> v.a # <<>>
      [] v.t = "str" -> v.s # <<>>

\* what an extractor does: it returns a list of words or raises
Words(ws) == [raised |-> FALSE, words |-> ws]
Raised(error) == [raised |-> TRUE, error |-> error]

iter_dicts(value) ==
    IF value.t = "dict" THEN << value >>
    ELSE IF value.t = "list" THEN SelectSeq(value.a, LAMBDA entry : entry.t = "dict")
    ELSE <<>>

iter_strings(value) ==
    IF value.t = "str" THEN << value >>
    ELSE IF value.t = "list" THEN SelectSeq(value.a, LAMBDA entry : entry.t = "str")
    ELSE <<>>

RECURSIVE split_comma(_)
\* token.split(",")
split_comma(s) ==
    IF \E i \in DOMAIN s : s[i] = ","
    THEN LET i == CHOOSE j \in DOMAIN s : s[j] = "," /\ \A k \in 1..(j - 1) : s[k] # ","
         IN  << SubSeq(s, 1, i - 1) >> \o split_comma(SubSeq(s, i + 1, Len(s)))
    ELSE << s >>

\* the non-empty normal forms of the comma-separated parts of a token
allomorph_words(token) ==
    SelectSeq([i \in DOMAIN split_comma(token) |-> normalize_word(split_comma(token)[i])],
              LAMBDA norm : norm # <<>>)

\* the normal form of value["word"] when it is a non-empty string
word_of(info) ==
    LET word == get(info, "word")
    IN  IF word.t = "str" /\ normalize_word(word.s) # <<>>
        THEN << normalize_word(word.s) >>
        ELSE <<>>

RECURSIVE unique(_)
\* if word not in seen: seen.add(word); out.append(word)
unique(ws) ==
    IF ws = <<>> THEN <<>>
    ELSE LET front == unique(SubSeq(ws, 1, Len(ws) - 1))
             last == ws[Len(ws)]
         IN  IF last \in Range(front) THEN front ELSE Append(front, last)

\* stdict_parser._variant_words
std_variant_words(info) ==
    LET related(key) == Join([i \in DOMAIN iter_dicts(get(info, key)) |->
                                 word_of(iter_dicts(get(info, key))[i])])
        pronunciations == iter_dicts(get(info, "pronunciation_info"))
        tokens(p) == iter_strings(get(p, "allomorph"))
        spoken(p) == Join([j \in DOMAIN tokens(p) |-> allomorph_words(tokens(p)[j].s)])
    IN  related("relation_info") \o related("lexical_info")
          \o Join([i \in DOMAIN pronunciations |-> spoken(pronunciations[i])])

\* stdict_parser.extract_headwords_from_file, after json.load
std_extract(doc) ==
    IF doc.t # "dict" THEN Raised("AttributeError")
    ELSE LET channel == get(doc, "channel")
             items == IF channel.t = "dict" THEN get(channel, "item") ELSE None
             iterable == IF items.t = "dict" THEN << items >>
                         ELSE IF items.t = "list" THEN items.a
                         ELSE <<>>
             candidates(item) ==
                 IF item.t # "dict" THEN <<>>
                 ELSE LET info == get(item, "word_info")
                      IN  IF info.t # "dict" THEN <<>>
                          ELSE word_of(info) \o std_variant_words(info)
         IN  Words(unique(Join([i \in DOMAIN iterable |-> candidates(iterable[i])])))

\* urimal_parser._iter_pronunciation_variants
urimal_pronunciation_variants(wordinfo) ==
    LET pronunciations == get(wordinfo, "pronunciation_info")
        spoken(entry) ==
            IF entry.t # "dict" THEN <<>>
            ELSE IF get(entry, "allomorph").t = "str"
                 THEN allomorph_words(get(entry, "allomorph").s)
                 ELSE <<>>
    IN  IF pronunciations.t = "list"
        THEN Join([i \in DOMAIN pronunciations.a |-> spoken(pronunciations.a[i])])
        ELSE spoken(pronunciations)

\* urimal_parser.extract_words_from_file, after json.load; item.get raises
\* for an item that is not a mapping
urimal_extract(doc) ==
    IF doc.t # "dict" THEN Raised("AttributeError")
    ELSE LET channel == get(doc, "channel")
             items == IF channel.t = "dict" THEN get(channel, "item") ELSE None
             iterable == IF items.t = "dict" THEN << items >>
                         ELSE IF items.t = "list" THEN items.a
                         ELSE <<>>
             found(item) ==
                 LET wordinfo == get(item, "wordinfo")
                 IN  IF wordinfo.t # "dict" THEN <<>>
                     ELSE word_of(wordinfo) \o urimal_pronunciation_variants(wordinfo)
         IN  IF \E i \in DOMAIN iterable : iterable[i].t # "dict"
             THEN Raised("AttributeError")
             ELSE Words(unique(Join([i \in DOMAIN iterable |-> found(iterable[i])])))

WRITTEN_FORM == Str(<< "writtenForm" >>)

\* basic_parser._resolve_feat_value
resolve_feat_value(feat) ==
    IF feat.t = "dict"
    THEN IF get(feat, "att") = WRITTEN_FORM THEN get(feat, "val") ELSE None
    ELSE IF feat.t = "list"
    THEN LET hits == SelectSeq(feat.a, LAMBDA item :
                                   item.t = "dict" /\ get(item, "att") = WRITTEN_FORM)
         IN  IF hits # <<>> THEN get(hits[1], "val") ELSE None
    ELSE None

\* basic_parser._extract_written_form: the value the written form is read
\* from (None when there is none), before normalize_word
written_form_value(entry) ==
    LET lemma == get(entry, "Lemma")
        value == resolve_feat_value(get(lemma, "feat"))
        form_rep == get(lemma, "FormRepresentation")
        firsts == SelectSeq(form_rep.a, LAMBDA item :
                                item.t = "dict" /\ truthy(resolve_feat_value(get(item, "feat"))))
    IN  IF lemma.t # "dict" THEN None
        ELSE IF truthy(value) THEN value
        ELSE IF form_rep.t = "dict"
             THEN IF truthy(resolve_feat_value(get(form_rep, "feat")))
                  THEN resolve_feat_value(get(form_rep, "feat"))
                  ELSE None
        ELSE IF form_rep.t = "list" /\ firsts # <<>>
             THEN resolve_feat_value(get(firsts[1], "feat"))
        ELSE None

\* basic_parser.extract_words_from_file, after json.load:
\* payload.get("LexicalResource", {}).get("Lexicon") raises when the value
\* under LexicalResource is not a mapping; normalize_word raises for a value
\* that is not a string
basic_extract(doc) ==
    IF doc.t # "dict" THEN Raised("AttributeError")
    ELSE LET resource == IF "LexicalResource" \in DOMAIN doc.m
                         THEN doc.m["LexicalResource"]
                         ELSE Dict(<<>>)
         IN  IF resource.t # "dict" THEN Raised("AttributeError")
             ELSE LET lexicon_section == get(resource, "Lexicon")
                      lexicons == iter_dicts(lexicon_section)
                      entries(lexicon) == iter_dicts(get(lexicon, "LexicalEntry"))
                      all_entries == Join([i \in DOMAIN lexicons |-> entries(lexicons[i])])
                      values == [i \in DOMAIN all_entries |-> written_form_value(all_entries[i])]
                      norms == [i \in DOMAIN values |->
                                   IF values[i].t = "str" THEN normalize_word(values[i].s)
                                   ELSE <<>>]
                  IN  IF \E i \in DOMAIN values : values[i].t \notin {"str", "null"}
                      THEN Raised("TypeError")
                      ELSE Words(unique(SelectSeq(norms, LAMBDA norm : norm # <<>>)))

\* The documents: every node that is expected to be a mapping is absent, a
\* mapping, or a list of two mappings.
Shapes == {"absent", "mapping", "list"}

STD_NODES == {"channel", "item", "word_info", "relation_info", "lexical_info",
              "pronunciation_info"}
URIMAL_NODES == {"channel", "item", "wordinfo", "pronunciation_info"}
BASIC_NODES == {"LexicalResource", "Lexicon", "LexicalEntry", "Lemma", "FormRepresentation"}

\* the strings at the leaves
HeadWord == << "GA", "GAG", "D" >>
RelatedWord == << "GAG" >>
LexicalWord == << "GA", "SP", "GA" >>
Allomorph == << "GAG", ",", "SP", "L", "V" >>

\* the item key -> value of a mapping, missing when the shape is "absent"
Field(key, shape, value) ==
    IF shape = "absent" THEN <<>>
    ELSE IF shape = "list" THEN key :> List(<< value, value >>)
    ELSE key :> value

std_document(sh) ==
    LET pronunciation == Dict("allomorph" :> Str(Allomorph))
        info == Dict(("word" :> Str(HeadWord))
                     @@ Field("relation_info", sh["relation_info"], Dict("word" :> Str(RelatedWord)))
                     @@ Field("lexical_info", sh["lexical_info"], Dict("word" :> Str(LexicalWord)))
                     @@ Field("pronunciation_info", sh["pronunciation_info"], pronunciation))
        item == Dict(Field("word_info", sh["word_info"], info))
        channel == Dict(Field("item", sh["item"], item))
    IN  Dict(Field("channel", sh["channel"], channel))

urimal_document(sh) ==
    LET pronunciation == Dict("allomorph" :> Str(Allomorph))
        wordinfo == Dict(("word" :> Str(HeadWord))
                         @@ Field("pronunciation_info", sh["pronunciation_info"], pronunciation))
        item == Dict(Field("wordinfo", sh["wordinfo"], wordinfo))
        channel == Dict(Field("item", sh["item"], item))
    IN  Dict(Field("channel", sh["channel"], channel))

\* the written form is a feat of the Lemma when there is no
\* FormRepresentation, and a feat of the FormRepresentation otherwise
basic_document(sh) ==
    LET feat == Dict(("att" :> WRITTEN_FORM) @@ ("val" :> Str(HeadWord)))
        form_rep == Dict("feat" :> feat)
        lemma == IF sh["FormRepresentation"] = "absent"
                 THEN Dict("feat" :> feat)
                 ELSE Dict(Field("FormRepresentation", sh["FormRepresentation"], form_rep))
        entry == Dict(Field("Lemma", sh["Lemma"], lemma))
        lexicon == Dict(Field("LexicalEntry", sh["LexicalEntry"], entry))
        resource == Dict(Field("Lexicon", sh["Lexicon"], lexicon))
    IN  Dict(Field("LexicalResource", sh["LexicalResource"], resource))

Documents ==
    {[format |-> SOURCE_STD, shape |-> sh, json |-> std_document(sh)] :
        sh \in [STD_NODES -> Shapes]}
    \cup {[format |-> SOURCE_URIMAL, shape |-> sh, json |-> urimal_document(sh)] :
        sh \in [URIMAL_NODES -> Shapes]}
    \cup {[format |-> SOURCE_BASIC, shape |-> sh, json |-> basic_document(sh)] :
        sh \in [BASIC_NODES -> Shapes]}

\* the extractor build_lexicon uses for the source
extract(format, doc) ==
    CASE format = SOURCE_STD -> std_extract(doc)
      [] format = SOURCE_URIMAL -> urimal_extract(doc)
      [] format = SOURCE_BASIC -> basic_extract(doc)

InitParse ==
    /\ payload \in Documents
    /\ parsed = <<>>
    /\ trie = NewTrie
    /\ TrieIdle /\ SearchIdle /\ NormalizerIdle /\ BuilderIdle

Parse ==
    /\ pc = "idle"
    /\ payload # <<>>
    /\ parsed = <<>>
    /\ parsed' = << extract(payload.format, payload.json) >>
    /\ UNCHANGED << trie, inserted, yielded, initials, beam_width, max_candidates,
                    keep_order, trace, frontier, results, trace_log, frontier_peak, pushed,
                    ordered, pc, raw, outputs, payload,
                    files, pending, registry, records, build_pc, previous >>

NextParse == Parse

SpecParse == InitParse /\ [][NextParse]_vars

\* C17: each of the three extractors returns a list of words without raising
\* when any node that is expected to be a mapping is absent, a single
\* mapping, or a list of mappings.
C17_ParsersTolerateShapes ==
    parsed # <<>> => ~parsed[1].raised

----------------------------------------------------------------------------
(* build_lexicon.  A file is its source and what the extractor of that     *)
(* source does with it: it returns a list of words or raises.  The         *)
(* registry is kept in insertion order, as the dict is.                    *)

MaxFiles == 3
MaxFileWords == 2

\* the words the files hold
BuildWords == {w \in AllWords : Len(w) = 1}

\* an extractor returns distinct non-empty words
FileWordLists ==
    {ws \in UNION {[1..n -> BuildWords] : n \in 0..MaxFileWords} :
        \A i, j \in DOMAIN ws : i # j => ws[i] # ws[j]}

Extractions == {Raised("Exception")} \cup {Words(ws) : ws \in FileWordLists}

FileKinds == [source : {SOURCE_STD, SOURCE_URIMAL, SOURCE_BASIC}, outcome : Extractions]

\* the *.json files of the three directories, by name
FileSystems == UNION {[1..n -> FileKinds] : n \in 0..MaxFiles}

\* build_lexicon.add_word
add_word(reg, word, source) ==
    IF word = <<>> THEN reg
    ELSE IF \E i \in DOMAIN reg : reg[i].word = word
    THEN LET i == CHOOSE j \in DOMAIN reg : reg[j].word = word
         IN  [reg EXCEPT ![i].sources = @ \cup {source}]
    ELSE Append(reg, [word |-> word, sources |-> {source}])

RECURSIVE add_words(_, _, _)
\* for word in words: add_word(word, source_label)
add_words(reg, words, source) ==
    IF words = <<>> THEN reg
    ELSE add_words(add_word(reg, Head(words), source), Tail(words), source)

\* one turn of the loop without the try: the exception leaves build_lexicon
gather_step_unguarded(reg, file) ==
    IF file.outcome.raised
    THEN [registry |-> reg, pc |-> "raised"]
    ELSE [registry |-> add_words(reg, file.outcome.words, file.source), pc |-> "gather"]

\* one turn of the loop of _gather_from_dir: try: words = extractor(path)
\* except Exception: continue; then the words are added
gather_step(reg, file) ==
    IF file.outcome.raised
    THEN [registry |-> reg, pc |-> "gather"]
    ELSE [registry |-> add_words(reg, file.outcome.words, file.source), pc |-> "gather"]

InitBuild ==
    /\ files \in FileSystems
    /\ pending = DOMAIN files
    /\ registry = <<>>
    /\ records = <<>>
    /\ build_pc = "gather"
    /\ trie = NewTrie
    /\ TrieIdle /\ SearchIdle /\ NormalizerIdle /\ ParserIdle

BuildFrame ==
    UNCHANGED << trie, inserted, yielded, initials, beam_width, max_candidates,
                 keep_order, trace, frontier, results, trace_log, frontier_peak, pushed,
                 ordered, pc, raw, outputs, payload, parsed, files, previous >>

\* the next file is read; the files are taken in any order
GatherFile(name) ==
    /\ build_pc = "gather"
    /\ name \in pending
    /\ pending' = pending \ {name}
    /\ registry' = gather_step(registry, files[name]).registry
    /\ build_pc' = gather_step(registry, files[name]).pc
    /\ UNCHANGED records
    /\ BuildFrame

\* records = sorted(registry.values(), key=...); return records
ReturnRecords ==
    /\ build_pc = "gather"
    /\ pending = {}
    /\ records' = SortBy(registry, RecordLess)
    /\ build_pc' = "done"
    /\ UNCHANGED << pending, registry >>
    /\ BuildFrame

NextBuild ==
    \/ \E name \in 1..MaxFiles : GatherFile(name)
    \/ ReturnRecords

\* the loops are for loops over finite lists: the next turn is always taken
SpecBuild == InitBuild /\ [][NextBuild]_vars /\ WF_vars(NextBuild)

\* the files whose extraction raised / returned
Failed == {name \in DOMAIN files : files[name].outcome.raised}
Parsed == DOMAIN files \ Failed

\* the (word, source) entries of the registry
Entries(reg) ==
    UNION {{<< reg[i].word, src >> : src \in reg[i].sources} : i \in DOMAIN reg}

\* the (word, source) entries the files of the set S produce
Produced(S) ==
    UNION {{<< files[name].outcome.words[i], files[name].source >> :
               i \in DOMAIN files[name].outcome.words} : name \in S}

\* reading a file whose extraction raises adds nothing to the registry
FailedFileAddsNothing ==
    \A name \in Failed : (name \in pending /\ name \notin pending') => registry' = registry

\* the exception never leaves build_lexicon, every file that has been read
\* and parsed has its entries in the registry, and at the return every file
\* has been read
FailuresAreSkipped ==
    /\ build_pc \in {"gather", "done"}
    /\ Entries(registry) = Produced(Parsed \ pending)
    /\ build_pc = "done" => pending = {}

\* C18: when an extractor raises on one file, that file adds no (word, source)
\* entry, every remaining file of that source and of the other sources is
\* still processed, and build_lexicon returns normally.
C18_ParseFailureIsSkipped ==
    /\ []FailuresAreSkipped
    /\ [][FailedFileAddsNothing]_vars
    /\ <>(build_pc = "done")

\* build_lexicon returned; the extraction of one file raised, and a file of
\* the same source and a file of another source gave words
C18_Witness ==
    /\ build_pc = "done"
    /\ Cardinality(DOMAIN files) = MaxFiles
    /\ \E a \in Failed, b \in Parsed, c \in Parsed :
          /\ b # c
          /\ files[a].source = files[b].source
          /\ files[a].source # files[c].source
          /\ files[b].outcome.words # <<>>
          /\ files[c].outcome.words # <<>>

\* the order build_lexicon itself reads the files in: the sources in the
\* order STD, URIMAL, BASIC, the files of a source by the number in the name
SourceRank(source) ==
    CASE source = SOURCE_STD -> 1
      [] source = SOURCE_URIMAL -> 2
      [] source = SOURCE_BASIC -> 3

code_order(fs) ==
    SetToSeq(DOMAIN fs,
             LAMBDA a, b : \/ SourceRank(fs[a].source) < SourceRank(fs[b].source)
                           \/ (fs[a].source = fs[b].source /\ a < b))

RECURSIVE gather_all(_, _, _)
gather_all(reg, fs, names) ==
    IF names = <<>> THEN reg
    ELSE gather_all(gather_step(reg, fs[Head(names)]).registry, fs, Tail(names))

\* what build_lexicon returns when it reads the files in its own order
build_lexicon(fs) == SortBy(gather_all(<<>>, fs, code_order(fs)), RecordLess)

\* the words the parsed files hold
WordsGiven == {entry[1] : entry \in Produced(Parsed)}

\* the tags of the sources that produced the word
TagsOf(word) == {entry[2] : entry \in {e \in Produced(Parsed) : e[1] = word}}

\* C20: build_lexicon returns exactly one record per distinct word it was
\* given, whose sources are the union of the tags of all the sources that
\* produced the word, in the order (-derived score, word); and the result is
\* the same for every order in which the files and sources are processed.
C20_RecordsAreCanonical ==
    build_pc = "done" =>
        /\ {records[i].word : i \in DOMAIN records} = WordsGiven
        /\ Len(records) = Cardinality(WordsGiven)
        /\ \A i \in DOMAIN records : records[i].sources = TagsOf(records[i].word)
        /\ \A i, j \in DOMAIN records :
              i < j =>
                 \/ record_score(records[i].sources) > record_score(records[j].sources)
                 \/ /\ record_score(records[i].sources) = record_score(records[j].sources)
                    /\ StrLess(records[i].word, records[j].word)
        /\ records = build_lexicon(files)

\* two records of equal score, one of them produced by two sources, returned
\* in the opposite of the order they entered the registry
C20_Witness ==
    /\ build_pc = "done"
    /\ Len(records) = 2
    /\ Len(registry) = 2
    /\ records[1] = registry[2]
    /\ record_score(records[1].sources) = record_score(records[2].sources)
    /\ \E i \in DOMAIN records : Cardinality(records[i].sources) = 2

----------------------------------------------------------------------------
(* The queries are read-only *)

\* what the query q answers when it is asked of the trie t
Answer(q, t) ==
    CASE q.op = "contains" -> contains(t, q.word)
      [] q.op = "has_prefix" -> has_word_with_prefix(t, q.word)
      [] q.op = "lookup" -> get_word_info(t, q.word)
      [] q.op = "iter" -> iter_words_with_prefix(t, q.word, q.limit)

\* a step that is a query of the trie, or a turn of generate_initial_combos
QueryStep == (yielded = NoQuery /\ yielded' # NoQuery) \/ pc = "loop"

----------------------------------------------------------------------------
(* The frontier as a queue: the order of the pops, the beam, the states *)

\* the position of the append that put the state st into the frontier
PushIndex(st) == CHOOSE i \in DOMAIN pushed : pushed[i] = st

\* a turn of the loop is about to pop Head(frontier)
AtPop == pc = "loop" /\ loop_continues(frontier, results, max_candidates)

\* C21: the frontier is a FIFO queue ordered by insertion: of two states that
\* are both in the frontier, the one pushed earlier is popped first; so the
\* state a turn pops was pushed before every state it leaves in the frontier.
C21_FifoByInsertion ==
    AtPop => \A k \in 2..Len(frontier) : PushIndex(frontier[1]) < PushIndex(frontier[k])

\* the list the turn that pops Head(frontier) hands to prune_to_beam
Grown ==
    Tail(frontier) \o commit_states(trie, Head(frontier))
                   \o extend_states(trie, Head(frontier))

\* C22: for beam_width >= 1 the frontier holds at most beam_width states at
\* every pop, and the states a prune keeps all score at least as much as
\* every state it drops.
C22_BeamBoundAndBestKept ==
    /\ [](beam_width >= 1 /\ AtPop => Len(frontier) <= beam_width)
    /\ [][(beam_width >= 1 /\ AtPop /\ Head(frontier).remaining # <<>>) =>
             \A kept \in Range(frontier') :
                 \A dropped \in Range(Grown) \ Range(frontier') :
                     kept.score >= dropped.score]_vars

\* a prune of beam width 1 has dropped a state and the loop pops again
C22_Witness ==
    /\ beam_width = 1
    /\ frontier_peak >= 2
    /\ AtPop
    /\ Len(frontier) = 1

\* how many times the syllable x occurs in the list s
Occurrences(s, x) == Cardinality({i \in DOMAIN s : s[i] = x})

\* counter[x] for a counter kept as a list of (letter, count) items
CountOf(counter, x) ==
    SumSeq([k \in DOMAIN counter |-> IF counter[k][1] = x THEN counter[k][2] ELSE 0])

\* C23: for every state that is ever appended to the frontier, the syllables
\* of its committed words, those of its prefix and its remaining multiset
\* add up to the multiset of the input, and every count of the remaining
\* multiset is at least 1.
C23_StatesAccountForInput ==
    \A i \in DOMAIN pushed :
        LET st == pushed[i]
            used == Join(st.words) \o st.prefix
            letters == Range(initials) \cup Range(used)
                         \cup {st.remaining[k][1] : k \in DOMAIN st.remaining}
        IN  /\ \A x \in letters :
                   Occurrences(used, x) + CountOf(st.remaining, x) = Occurrences(initials, x)
            /\ \A k \in DOMAIN st.remaining : st.remaining[k][2] >= 1

\* a state with a committed word, a prefix and a syllable left has been
\* appended, for an input that holds a syllable twice
C23_Witness ==
    /\ \E i, j \in DOMAIN initials : i # j /\ initials[i] = initials[j]
    /\ \E i \in DOMAIN pushed :
           /\ pushed[i].words # <<>>
           /\ pushed[i].prefix # <<>>
           /\ pushed[i].remaining # <<>>

----------------------------------------------------------------------------
(* The nodes of the trie after any inserts *)

TerminalNodes == {p \in DOMAIN trie.nodes : trie.nodes[p].terminal}

\* C24: after any sequence of insert calls a node is terminal if and only if
\* its set of sources is not empty.
C24_TerminalIffSources ==
    \A p \in DOMAIN trie.nodes : trie.nodes[p].terminal <=> trie.nodes[p].sources # {}

\* the best weight of a set of sources under the fixed weights; a tag without
\* a weight counts 0, and so does a node that was given no tag at all
MaxWeight(S) ==
    Max({0} \cup {IF s \in DOMAIN SOURCE_WEIGHTS THEN SOURCE_WEIGHTS[s] ELSE 0 : s \in S})

\* C25: after any sequence of insert calls with the weights STD 2.0, URIMAL
\* 1.0, BASIC 3.0, the base score of every terminal node is the largest
\* weight among the sources the node has accumulated, an unknown tag
\* weighing 0.
C25_ScoreIsMaxWeight ==
    \A p \in TerminalNodes : trie.nodes[p].base_score = MaxWeight(trie.nodes[p].sources)

\* a word was inserted with its heaviest sources first and then again with a
\* lighter one, and some word has an unknown tag
C25_Witness ==
    /\ \E p \in TerminalNodes :
           /\ trie.nodes[p].sources = {SOURCE_URIMAL, SOURCE_STD, SOURCE_BASIC}
           /\ << p, {SOURCE_URIMAL} >> \in inserted
    /\ \E p \in TerminalNodes : "OTHER" \in trie.nodes[p].sources

\* C26: after any sequence of insert calls, repeated words and the empty word
\* among them, len(trie) is the number of terminal nodes, which is the
\* number of distinct non-empty words inserted.
C26_SizeCountsWords ==
    /\ trie.size = Cardinality(TerminalNodes)
    /\ trie.size = Cardinality({pair[1] : pair \in inserted} \ {<<>>})

\* three inserts: the empty word, and one word twice with different sources
C26_Witness ==
    /\ Cardinality(inserted) = 3
    /\ \E pair \in inserted : pair[1] = <<>>
    /\ \E a, b \in inserted : a # b /\ a[1] = b[1] /\ a[1] # <<>>
    /\ trie.size = 1

----------------------------------------------------------------------------
(* The returned list: its order and the shape of its candidates *)

\* the number of words of the candidate c that have more than one syllable
MultiCount(c) == Cardinality({i \in DOMAIN c.words : Len(c.words[i]) > 1})

\* (-multi_syllable_count, single_syllable_count, word_count, -score,
\*  -total_syllables, combo_text)
RankingKey(c) ==
    << -MultiCount(c),
       Len(c.words) - MultiCount(c),
       Len(c.words),
       -c.score,
       -Len(Join(c.words)),
       c.combo >>

\* k1 <= k2, component by component from the left; the last one is a string
KeyAtMost(k1, k2) ==
    \/ k1 = k2
    \/ \E i \in 1..6 :
           /\ \A j \in 1..(i - 1) : k1[j] = k2[j]
           /\ IF i = 6 THEN StrLess(k1[i], k2[i]) ELSE k1[i] < k2[i]

\* C27: the returned list is in non-decreasing order of the ranking key; in
\* particular a candidate never comes after one that has fewer words of
\* more than one syllable, whatever the scores of the two.
C27_ReturnedInKeyOrder ==
    pc = "done" =>
        \A i, j \in DOMAIN ordered :
            i < j =>
                /\ KeyAtMost(RankingKey(ordered[i]), RankingKey(ordered[j]))
                /\ MultiCount(ordered[i]) >= MultiCount(ordered[j])

\* a returned candidate with more multi-syllable words comes before one that
\* scores more
C27_Witness ==
    /\ pc = "done"
    /\ \E i, j \in DOMAIN ordered :
           /\ i < j
           /\ MultiCount(ordered[i]) > MultiCount(ordered[j])
           /\ ordered[i].score < ordered[j].score

\* the words of the state a finalising turn pops, in the order of the commits
Completed ==
    LET st == Head(frontier)
    IN  st.words \o (IF st.prefix # <<>> THEN << st.prefix >> ELSE <<>>)

\* C28: in bag mode the words of every candidate are sorted by (-length,
\* lexicographic) and its mode is "bag"; in sequence mode the words are in
\* the order of the commits and the mode is "sequence"; in both modes combo
\* is the concatenation of the words and coverage is the input list as given.
C28_CandidateShape ==
    /\ [](\A c \in Range(results) \cup Range(ordered) :
             /\ c.mode = (IF keep_order THEN "sequence" ELSE "bag")
             /\ c.combo = Join(c.words)
             /\ c.coverage = initials
             /\ ~keep_order =>
                    \A i, j \in DOMAIN c.words :
                        i < j =>
                            \/ Len(c.words[i]) > Len(c.words[j])
                            \/ /\ Len(c.words[i]) = Len(c.words[j])
                               /\ ~StrLess(c.words[j], c.words[i]))
    /\ [][(AtPop /\ Len(results') = Len(results) + 1) =>
             LET c == results'[Len(results')]
             IN  IF keep_order
                 THEN c.words = Completed
                 ELSE Bag(c.words) = Bag(Completed)]_vars

\* a bag-mode candidate whose words were committed in another order than the
\* one it lists them in
C28_Witness ==
    /\ ~keep_order
    /\ \E k \in DOMAIN results, i \in DOMAIN pushed :
           /\ pushed[i].remaining = <<>>
           /\ pushed[i].prefix # <<>>
           /\ Bag(Append(pushed[i].words, pushed[i].prefix)) = Bag(results[k].words)
           /\ Append(pushed[i].words, pushed[i].prefix) # results[k].words
           /\ results[k].coverage # results[k].combo

----------------------------------------------------------------------------
(* The trace *)

\* the events a step appends to the trace
Appended == SubSeq(trace_log', Len(trace_log) + 1, Len(trace_log'))

\* the states a step appends to the frontier, in the order of the appends
NewStates == SubSeq(pushed', Len(pushed) + 1, Len(pushed'))

\* what a traced turn of the loop writes: the pop of the state it takes,
\* then a result event if and only if it collects a candidate (a state with
\* nothing remaining), or else one event per appended state in the order of
\* the appends (the commit, if any, before the extends) and one prune event
TurnMirrored ==
    LET st == Head(frontier)
        ev == Appended
        mid == SubSeq(ev, 2, Len(ev) - 1)
    IN  /\ Len(trace_log') > Len(trace_log)
        /\ SubSeq(trace_log', 1, Len(trace_log)) = trace_log
        /\ ev[1].event = "pop"
        /\ ev[1].prefix = st.prefix /\ ev[1].words = st.words
        /\ ev[1].remaining = st.remaining /\ ev[1].score = st.score
        /\ IF st.remaining = <<>>
           THEN /\ Len(ev) = 1 + (Len(results') - Len(results))
                /\ Len(ev) <= 2
                /\ Len(ev) = 2 =>
                       /\ ev[2].event = "result"
                       /\ ev[2].words = results'[Len(results')].words
                /\ pushed' = pushed
           ELSE /\ Len(ev) >= 2
                /\ ev[Len(ev)].event = "prune"
                /\ ev[Len(ev)].frontier_size = Len(frontier')
                /\ Len(mid) = Len(NewStates)
                /\ results' = results
                /\ \A i \in DOMAIN mid :
                       IF NewStates[i].prefix = <<>>
                       THEN /\ i = 1
                            /\ mid[i].event = "commit"
                            /\ mid[i].words = NewStates[i].words
                            /\ mid[i].score = NewStates[i].score
                       ELSE /\ mid[i].event = "extend"
                            /\ mid[i].next_prefix = NewStates[i].prefix
                            /\ mid[i].score = NewStates[i].score
                            /\ mid[i].remaining = NewStates[i].remaining

\* the complete events of the trace
CompleteEvents == {i \in DOMAIN trace_log : trace_log[i].event = "complete"}

\* C29: with trace on, the trace mirrors the transitions in order: every turn
\* of the loop writes a pop event, then at most one result event (a state
\* with nothing remaining) or else at most one commit event, the extend
\* events and exactly one prune event; the trace ends with exactly one
\* complete event, whose result_count is the length of the returned list.
C29_TraceMirrorsTurns ==
    /\ [][(trace /\ AtPop) => TurnMirrored]_vars
    /\ [](trace /\ pc = "loop" => CompleteEvents = {})
    /\ [](trace /\ pc = "done" =>
             /\ CompleteEvents = {Len(trace_log)}
             /\ trace_log[Len(trace_log)].result_count = Len(ordered))

\* a finished trace with a commit, an extend, a prune, a result and a turn
\* whose pop is followed by no result
C29_Witness ==
    /\ trace
    /\ pc = "done"
    /\ ordered # <<>>
    /\ \A e \in {"commit", "extend", "prune", "result"} :
           \E i \in DOMAIN trace_log : trace_log[i].event = e
    /\ \E i \in DOMAIN trace_log :
           /\ trace_log[i].event = "pop"
           /\ trace_log[i].remaining = <<>>
           /\ trace_log[i + 1].event # "result"

----------------------------------------------------------------------------
(* Termination *)

\* the number of syllables a state has left
Left(st) == SumSeq([k \in DOMAIN st.remaining |-> st.remaining[k][2]])

\* C30: generate_initial_combos terminates for every input list, trie,
\* beam_width and max_candidates: every state a turn appends either comes
\* from a commit, which needs a non-empty prefix and leaves an empty one, or
\* from an extend, which has one syllable less left than the popped state;
\* and the call reaches its return.
C30_Terminates ==
    /\ [][AtPop =>
             \A i \in DOMAIN NewStates :
                 IF NewStates[i].prefix = <<>>
                 THEN /\ Head(frontier).prefix # <<>>
                      /\ Left(NewStates[i]) = Left(Head(frontier))
                 ELSE /\ Left(NewStates[i]) = Left(Head(frontier)) - 1
                      /\ Left(NewStates[i]) >= 0]_vars
    /\ <>(pc = "done")

\* a call that has returned after a commit and an extend of the same state,
\* for an input of the greatest length
C30_Witness ==
    /\ pc = "done"
    /\ Len(initials) = MaxLen
    /\ \E i, j \in DOMAIN pushed :
           /\ pushed[i].prefix = <<>> /\ pushed[i].words # <<>>
           /\ pushed[j].words = SubSeq(pushed[i].words, 1, Len(pushed[i].words) - 1)
           /\ Len(pushed[j].prefix) = 2
           /\ pushed[j].remaining = sorted_items(take_letter_all(pushed[i].remaining, 1))

----------------------------------------------------------------------------
(* The same call on a permutation of the input *)

\* the lists that hold the syllables of s, each as often as s does
Reorderings(s) ==
    {t \in [DOMAIN s -> Range(s)] : \A x \in Range(s) : Occurrences(t, x) = Occurrences(s, x)}

InitPermuted == Init /\ ~trace

\* the finished call is remembered and the call is made again with the same
\* trie, beam_width, max_candidates and keep_order on another order of the
\* same syllables
CallPermuted ==
    /\ pc = "done"
    /\ previous = <<>>
    /\ previous' = << [initials |-> initials, ordered |-> ordered] >>
    /\ initials' \in Reorderings(initials) \ {initials}
    /\ frontier' = << [score |-> 0, remaining |-> sorted_items(Counter(initials')),
                       prefix |-> <<>>, words |-> <<>>] >>
    /\ results' = <<>>
    /\ trace_log' = <<>>
    /\ frontier_peak' = 0
    /\ pushed' = frontier'
    /\ ordered' = <<>>
    /\ pc' = "loop"
    /\ UNCHANGED << trie, beam_width, max_candidates, keep_order, trace, lexicon_state >>

NextPermuted == PopFinal \/ PopExpand \/ Complete \/ CallPermuted

SpecPermuted == InitPermuted /\ [][NextPermuted]_vars

\* a candidate without its coverage field
Uncovered(c) ==
    [combo |-> c.combo, words |-> c.words, word_sources |-> c.word_sources,
     word_scores |-> c.word_scores, mode |-> c.mode, score |-> c.score]

----------------------------------------------------------------------------
(* The order of the frontier *)

\* C32: at every pop the frontier is in non-increasing order of the
\* cumulative score, so the state that is popped has the greatest score of
\* all the states in the frontier: the search is best-first in effect.
C32_FrontierSortedAtPop ==
    AtPop =>
        /\ \A i, j \in DOMAIN frontier : i < j => frontier[i].score >= frontier[j].score
        /\ \A k \in DOMAIN frontier : Head(frontier).score >= frontier[k].score

\* a pop at which the sort has acted: the state at the head scores more than
\* a state behind it that was appended before it
C32_Witness ==
    /\ AtPop
    /\ \E k \in 2..Len(frontier) :
           /\ frontier[1].score > frontier[k].score
           /\ PushIndex(frontier[1]) > PushIndex(frontier[k])

----------------------------------------------------------------------------
(* A trie grown by inserts, and then searched *)

InitGrown == InitTrie

\* one input list for each multiset of MaxLen syllables: the list in
\* ascending order (the search starts from the sorted Counter of the list)
GrownInitials ==
    {s \in InitialsLists : Len(s) = MaxLen /\ \A i \in 1..(Len(s) - 1) : s[i] <= s[i + 1]}

\* generate_initial_combos is called, with its default arguments, on the trie
\* the inserts have made
StartSearch ==
    /\ pc = "idle"
    /\ yielded = NoQuery
    /\ initials' \in GrownInitials
    /\ frontier' = << [score |-> 0, remaining |-> sorted_items(Counter(initials')),
                       prefix |-> <<>>, words |-> <<>>] >>
    /\ pushed' = frontier'
    /\ pc' = "loop"
    /\ UNCHANGED << trie, beam_width, max_candidates, keep_order, trace, results,
                    trace_log, frontier_peak, ordered, lexicon_state, previous >>

NextGrown ==
    \/ \E word \in TrieWords, sources \in InsertSources : Insert(word, sources)
    \/ StartSearch
    \/ PopFinal
    \/ PopExpand
    \/ Complete

SpecGrown == InitGrown /\ [][NextGrown]_vars

\* the non-empty strings asked of the trie: one syllable more than any word
Prefixes == UNION {[1..n -> Syllables] : n \in 1..(MaxWordLen + 1)}

\* the word w starts with the string p
StartsWith(w, p) == Len(p) <= Len(w) /\ SubSeq(w, 1, Len(p)) = p

\* C33: in every trie made by inserts, for every non-empty prefix p,
\* has_prefix(p) holds if and only if a word of the trie starts with p, that
\* is if and only if iter_words_with_prefix(p) is not empty; so every state
\* an extend appends has a prefix that a word of the trie continues, and
\* score_prefix_hint finds a first word for it (it never falls back to 0).
C33_PrefixMeansWord ==
    /\ \A p \in Prefixes :
           /\ has_word_with_prefix(trie, p) <=> (\E w \in TerminalNodes : StartsWith(w, p))
           /\ has_word_with_prefix(trie, p) <=> iter_words_with_prefix(trie, p, <<>>) # <<>>
    /\ \A i \in DOMAIN pushed :
           pushed[i].prefix # <<>> =>
               /\ \E w \in TerminalNodes : StartsWith(w, pushed[i].prefix)
               /\ iter_words_with_prefix(trie, pushed[i].prefix, << 1 >>) # <<>>

\* a search has extended to a prefix that is no word itself, in a trie that
\* holds a word inserted without sources and lacks some one-syllable prefix
C33_Witness ==
    /\ pc = "done"
    /\ \E pair \in inserted : pair[1] # <<>> /\ pair[2] = {}
    /\ \E p \in Prefixes : Len(p) = 1 /\ ~has_word_with_prefix(trie, p)
    /\ \E i \in DOMAIN pushed :
           /\ pushed[i].prefix # <<>>
           /\ ~contains(trie, pushed[i].prefix)
====
